---- MODULE Spec2Model ----
(***************************************************************************)
(* The reparenting window manager core of r3: the frame registry, the      *)
(* window operations (frame, unframe, kill, move, resize), the drag        *)
(* controller and the event dispatcher, run against a small model of the   *)
(* X server.  One action handles one event pulled by the dispatcher: the   *)
(* handler, every request it issues and the render step that follows.      *)
(***************************************************************************)
EXTENDS Integers, Sequences, FiniteSets, TLC

\* ------------------------------------------------------------------ bounds
MaxFrames == 2         \* frame windows that can exist at once
MaxSeq == 1            \* event sequence numbers are drawn from 0..MaxSeq
MaxIgnored == 2        \* capacity of the ignored-sequence buffer
MaxInbox == 2          \* close messages a client leaves unread
MaxQueue == 1          \* Exit commands waiting in the command queue
MaxExtent == 2         \* drags keep every window within -MaxExtent..MaxExtent

\* ------------------------------------------------------- program constants
ENTER_NOTIFY == 7      \* EnterNotifyEvent::NUMBER, the core protocol's event code
KEY_Q == 24            \* 0x18, the key of the kill and quit chords

None == -1
Root == 0
FirstFrameId == 100
\* The client windows: as in the integration tests, one client at a time is driven
\* through the manager; the second is there for the claims about two clients.
Clients == {1, 2}
FrameIds == FirstFrameId..(FirstFrameId + MaxFrames - 1)
Windows == Clients \cup FrameIds
Seqs == 0..MaxSeq
Bools == {TRUE, FALSE}

Min(S) == CHOOSE x \in S : \A y \in S : x <= y

\* ------------------------------------------------------------- geometry
Rect(x, y, w, h) == [x |-> x, y |-> y, w |-> w, h |-> h]
Point(x, y) == [x |-> x, y |-> y]
InitRect == Rect(0, 0, 2, 2)
NoRect == Rect(0, 0, 0, 0)

\* ------------------------------------------------------------- the state
VARIABLES
    framed_clients,         \* BiMap client <-> frame, as a set of <<client, frame>> pairs
    ignored_sequences,      \* sequence of [seq, ty] records, oldest first
    drag_start,             \* Option<Point>: << >> or << point >>
    drag_start_frame_rect,  \* Option<Rect>: << >> or << rect >>
    focused_window,         \* Option<Window>
    ev_queue,               \* number of Exit commands pushed to the command queue
    alive,                  \* server: client windows that exist
    frames,                 \* server: frame windows created and not destroyed
    parent,                 \* server: parent of each client window (Root or a frame)
    mapped,                 \* server: mapped windows
    save_set,               \* server: the manager's save set
    geom,                   \* server: geometry of each window, relative to its parent
    protocols,              \* server: clients whose WM_PROTOCOLS holds WM_DELETE_WINDOW
    inbox,                  \* server: close messages delivered to each client
    status,                 \* "running", "panicked", "exited" or "killed"
    ev,                     \* the event handled last
    arm,                    \* the match arms of handle_event that ran for it
    reqs,                   \* the requests and registry updates it made, in order
    result,                 \* what handle_event returned for it
    rendered,               \* whether render ran for it
    focus_follows_mouse,    \* config.focus_follows_mouse
    rejects,                \* whether the server may reject a request on a window that
                            \* exists (a request on a window that is gone always fails)
    tracing                 \* what is recorded of a step: "full" (ev, arm, reqs, result,
                            \* rendered), "event" (all but reqs), "outcome" (all but reqs
                            \* and the event's window and sequence number), "off"

wm_vars == <<framed_clients, ignored_sequences, drag_start, drag_start_frame_rect,
             focused_window, ev_queue, focus_follows_mouse>>
server_vars == <<alive, frames, parent, mapped, save_set, geom, protocols, inbox>>
log_vars == <<ev, arm, reqs, result, rendered>>
vars == <<wm_vars, server_vars, status, log_vars, tracing, rejects>>

\* ----------------------------------------------------------- the BiMap
get_by_left(m, l) == IF \E p \in m : p[1] = l THEN (CHOOSE p \in m : p[1] = l)[2] ELSE None
get_by_right(m, r) == IF \E p \in m : p[2] = r THEN (CHOOSE p \in m : p[2] = r)[1] ELSE None
BiInsertKeep(m, l, r) == m \cup {<<l, r>>}
BiInsert(m, l, r) == {p \in m : p[1] # l /\ p[2] # r} \cup {<<l, r>>}
remove_by_left(m, l) == {p \in m : p[1] # l}

get_frame_and_window(target) ==
    IF get_by_left(framed_clients, target) # None
    THEN <<target, get_by_left(framed_clients, target)>>
    ELSE IF get_by_right(framed_clients, target) # None
         THEN <<get_by_right(framed_clients, target), target>>
         ELSE <<None, None>>

\* -------------------------------------------------------------- requests
\* A request the manager issues on window w. A checked request reports a request
\* error to the caller (send_and_check_request, wait_for_reply); the others are sent
\* without waiting for an answer. `needs` is the window that must exist on the server
\* for the request to succeed (None for a window the same handler has just created).
Req(op, w, arg, checked, needs) ==
    [op |-> op, w |-> w, arg |-> arg, checked |-> checked, needs |-> needs]

Exists(w) == w = None \/ w = Root \/ w \in alive \/ w \in frames

\* The server rejects a ConfigureWindow that asks for a width or a height of zero.
ValidArgs(s) ==
    s.op = "ConfigureWindow" =>
        /\ "w" \in DOMAIN s.arg => s.arg.w >= 1
        /\ "h" \in DOMAIN s.arg => s.arg.h >= 1

\* The server carries the request out.
Accepts(s) == Exists(s.needs) /\ ValidArgs(s)

\* The first step of `steps` that reports an error: a checked step whose window is
\* gone, or the checked step `fault` that the server rejects for another reason;
\* 0 when no step reports one.
FirstFail(steps, fault) ==
    LET bad == {i \in 1..Len(steps) :
                   steps[i].checked /\ (i = fault \/ ~Accepts(steps[i]))}
    IN IF bad = {} THEN 0 ELSE Min(bad)

\* The requests that were issued, in order, each with its outcome on the server.
Issued(steps, fail) ==
    [i \in 1..(IF fail = 0 THEN Len(steps) ELSE fail) |->
        [op |-> steps[i].op, w |-> steps[i].w, arg |-> steps[i].arg,
         ok |-> IF steps[i].checked THEN i # fail ELSE Accepts(steps[i])]]

\* The checked steps the server may reject; 0 stands for none.
Faults(steps) ==
    {0} \cup (IF rejects THEN {i \in 1..Len(steps) : steps[i].checked} ELSE {})

\* Step i of a handler ran and succeeded, when the first failing step is `fail`.
Done(fail, i) == fail = 0 \/ i < fail

\* ------------------------------------------------------------ the server
\* The effect on the server of the requests L that a handler issued.
Oks(L, op) == {i \in DOMAIN L : L[i].ok /\ L[i].op = op}
OkWins(L, op) == {L[i].w : i \in Oks(L, op)}
LastOk(L, op, w) ==
    LET S == {i \in Oks(L, op) : L[i].w = w}
    IN IF S = {} THEN 0 ELSE CHOOSE i \in S : \A j \in S : j <= i

\* KillClient on a client window closes that client's connection and destroys its
\* window; on a frame it names the manager's own connection.
KilledClients(L) == OkWins(L, "KillClient") \cap Clients
KillsManager(L) == OkWins(L, "KillClient") \cap FrameIds # {}

SrvFrames(L) ==
    IF KillsManager(L) THEN {}
    ELSE (frames \cup OkWins(L, "CreateWindow")) \ OkWins(L, "DestroyWindow")

\* The parent a client asked to be put under, before frames are destroyed.
SrvAskedParent(L, c) ==
    LET k == LastOk(L, "ReparentWindow", c)
    IN IF k = 0 THEN parent[c] ELSE L[k].arg

\* A client inside a frame that is destroyed goes with it, unless the manager's
\* connection closed and the save set keeps it.
SrvAlive(L) ==
    {c \in alive \ KilledClients(L) :
        \/ SrvAskedParent(L, c) = Root
        \/ SrvAskedParent(L, c) \in SrvFrames(L)
        \/ (KillsManager(L) /\ c \in save_set)}

SrvParent(L) ==
    [c \in Clients |->
        IF c \in SrvAlive(L) /\ SrvAskedParent(L, c) \in SrvFrames(L)
        THEN SrvAskedParent(L, c) ELSE Root]

SrvSaveSet(L) ==
    LET ins == {L[i].w : i \in {j \in Oks(L, "ChangeSaveSet") : L[j].arg = "Insert"}}
        del == {L[i].w : i \in {j \in Oks(L, "ChangeSaveSet") : L[j].arg = "Delete"}}
    IN IF KillsManager(L) THEN {}
       ELSE (((save_set \cup ins) \ del) \cap SrvAlive(L))

SrvMapped(L) ==
    LET kept == IF KillsManager(L) THEN mapped \cup (save_set \cap SrvAlive(L)) ELSE mapped
    IN (((kept \cup OkWins(L, "MapWindow")) \ OkWins(L, "UnmapWindow"))
            \cap (SrvAlive(L) \cup SrvFrames(L)))

\* Geometry: CreateWindow sets it, ReparentWindow sets the position inside the new
\* parent, ConfigureWindow sets the fields its value list names (a record holding
\* some of x, y, w, h and stack).
SrvGeomOf(L, w) ==
    LET c == LastOk(L, "CreateWindow", w)
        r == LastOk(L, "ReparentWindow", w)
        g == LastOk(L, "ConfigureWindow", w)
        g0 == IF c # 0 THEN L[c].arg ELSE geom[w]
        g1 == IF r # 0 THEN [g0 EXCEPT !.x = 0, !.y = 0] ELSE g0
        g2 == IF g # 0
              THEN [f \in {"x", "y", "w", "h"} |->
                       IF f \in DOMAIN L[g].arg THEN L[g].arg[f] ELSE g1[f]]
              ELSE g1
    IN IF w \in SrvAlive(L) \cup SrvFrames(L) THEN g2 ELSE NoRect

SrvGeom(L) == [w \in Windows |-> SrvGeomOf(L, w)]

SrvInbox(L) ==
    [c \in Clients |->
        IF c \notin SrvAlive(L) THEN 0
        ELSE inbox[c] + Cardinality({i \in Oks(L, "SendEvent") :
                                        L[i].w = c /\ L[i].arg = "WM_DELETE_WINDOW"})]

ServerStep(L) ==
    IF L = << >>
    THEN UNCHANGED server_vars
    ELSE /\ frames' = SrvFrames(L)
         /\ alive' = SrvAlive(L)
         /\ parent' = SrvParent(L)
         /\ save_set' = SrvSaveSet(L)
         /\ mapped' = SrvMapped(L)
         /\ geom' = SrvGeom(L)
         /\ inbox' = SrvInbox(L)
         /\ protocols' = protocols

\* What the model records of the step that was taken last.
Trace(e, a, L, res, rend) ==
    CASE tracing = "full" ->
            ev' = e /\ arm' = a /\ reqs' = L /\ result' = res /\ rendered' = rend
      [] tracing = "event" ->
            /\ ev' = e /\ arm' = a /\ result' = res /\ rendered' = rend
            /\ UNCHANGED reqs
      [] tracing = "outcome" ->
            /\ ev' = [e EXCEPT !.window = None, !.seq = None, !.pos = << >>,
                                !.state = {}, !.detail = None]
            /\ arm' = a /\ result' = res /\ rendered' = rend
            /\ UNCHANGED reqs
      [] OTHER -> UNCHANGED log_vars

\* ------------------------------------------------- the ignored sequences
IgnRecord(buf, seq, ty) ==
    IF \E i \in DOMAIN buf : buf[i].seq = seq THEN buf
    ELSE LET b == Append(buf, [seq |-> seq, ty |-> ty])
         IN IF Len(b) > MaxIgnored THEN Tail(b) ELSE b

add(buf, seq) == IgnRecord(buf, seq, None)
add_with_type(buf, seq, ty) == IgnRecord(buf, seq, ty)

IgnMatches(r, seq, ty) == r.seq = seq /\ (r.ty = None \/ r.ty = ty)
is_ignored(buf, seq, ty) == \E i \in DOMAIN buf : IgnMatches(buf[i], seq, ty)
IgnConsume(buf, seq, ty) == SelectSeq(buf, LAMBDA r : ~IgnMatches(r, seq, ty))

\* --------------------------------------------------- window operations
\* frame_window without the MapWindow of the frame.
FrameWindowStepsFrameUnmapped(window, frame) ==
    << Req("GetGeometry", window, None, TRUE, window),
       Req("CreateWindow", frame, geom[window], TRUE, None),
       Req("ChangeSaveSet", window, "Insert", TRUE, window),
       Req("ReparentWindow", window, frame, TRUE, window),
       Req("RegistryInsert", window, frame, FALSE, None),
       Req("GrabButton", window, None, TRUE, window),
       Req("GrabKey", window, None, TRUE, window) >>

\* frame_window(window, false), with `frame` the id generate_id returns.
FrameWindowSteps(window, frame) ==
    << Req("GetGeometry", window, None, TRUE, window),
       Req("CreateWindow", frame, geom[window], TRUE, None),
       Req("ChangeSaveSet", window, "Insert", TRUE, window),
       Req("ReparentWindow", window, frame, TRUE, window),
       Req("MapWindow", frame, None, TRUE, None),
       Req("RegistryInsert", window, frame, FALSE, None),
       Req("GrabButton", window, None, TRUE, window),
       Req("GrabKey", window, None, TRUE, window) >>

\* unframe_window without remove_by_left.
UnframeWindowStepsKeepEntry(window_id, frame_id) ==
    << Req("UnmapWindow", frame_id, None, TRUE, frame_id),
       Req("ReparentWindow", window_id, Root, FALSE, window_id),
       Req("ChangeSaveSet", window_id, "Delete", FALSE, window_id),
       Req("DestroyWindow", frame_id, None, FALSE, frame_id),
       Req("Flush", None, None, TRUE, None) >>

\* unframe_window(window_id) on a registered client whose frame is frame_id.
UnframeWindowSteps(window_id, frame_id) ==
    << Req("UnmapWindow", frame_id, None, TRUE, frame_id),
       Req("ReparentWindow", window_id, Root, FALSE, window_id),
       Req("ChangeSaveSet", window_id, "Delete", FALSE, window_id),
       Req("DestroyWindow", frame_id, None, FALSE, frame_id),
       Req("RegistryRemove", window_id, None, FALSE, None),
       Req("Flush", None, None, TRUE, None) >>

unframe_window(window_id) ==
    IF get_by_left(framed_clients, window_id) = None THEN << >>
    ELSE UnframeWindowSteps(window_id, get_by_left(framed_clients, window_id))

\* supports_wm_delete_window answering true for every window.
supports_always(window) == TRUE
supports_wm_delete_window(window) == window \in protocols

\* kill_window without the graceful branch.
kill_window_forced(window) ==
    << Req("GetProperty", window, None, TRUE, window),
       Req("KillClient", window, None, TRUE, window) >>

kill_window(window) ==
    << Req("GetProperty", window, None, TRUE, window) >> \o
    ( IF supports_wm_delete_window(window)
      THEN << Req("SendEvent", window, "WM_DELETE_WINDOW", FALSE, window),
              Req("Flush", None, None, TRUE, None) >>
      ELSE << Req("KillClient", window, None, TRUE, window) >> )

move_window(window, pos) ==
    LET id == IF get_by_left(framed_clients, window) # None
              THEN get_by_left(framed_clients, window) ELSE window
    IN << Req("ConfigureWindow", id, [x |-> pos.x, y |-> pos.y], TRUE, id) >>

\* resize_window that hands the client the rectangle's origin along with its size.
resize_window_same_rect(window, rect) ==
    ( IF get_by_left(framed_clients, window) # None
      THEN << Req("ConfigureWindow", get_by_left(framed_clients, window),
                  [x |-> rect.x, y |-> rect.y, w |-> rect.w, h |-> rect.h], TRUE,
                  get_by_left(framed_clients, window)) >>
      ELSE << >> ) \o
    << Req("ConfigureWindow", window,
           [x |-> rect.x, y |-> rect.y, w |-> rect.w, h |-> rect.h], TRUE, window) >>

resize_window(window, rect) ==
    ( IF get_by_left(framed_clients, window) # None
      THEN << Req("ConfigureWindow", get_by_left(framed_clients, window),
                  [x |-> rect.x, y |-> rect.y, w |-> rect.w, h |-> rect.h], TRUE,
                  get_by_left(framed_clients, window)) >>
      ELSE << >> ) \o
    << Req("ConfigureWindow", window,
           IF get_by_left(framed_clients, window) # None
           THEN [x |-> 0, y |-> 0, w |-> rect.w, h |-> rect.h]
           ELSE [x |-> rect.x, y |-> rect.y, w |-> rect.w, h |-> rect.h],
           TRUE, window) >>

\* The registry after the steps L of a handler.
RegistryAfter(L) ==
    LET ins == Oks(L, "RegistryInsert")
        rem == Oks(L, "RegistryRemove")
    IN IF ins # {}
       THEN LET i == CHOOSE j \in ins : TRUE
            IN BiInsert(framed_clients, L[i].w, L[i].arg)
       ELSE IF rem # {}
            THEN LET i == CHOOSE j \in rem : TRUE
                 IN remove_by_left(framed_clients, L[i].w)
            ELSE framed_clients

\* ------------------------------------------------------------- geometry
I16(v) == ((v + 32768) % 65536) - 32768
U16(v) == v % 65536
Max(a, b) == IF a >= b THEN a ELSE b

Contains(r, p) == r.x <= p.x /\ p.x < r.x + r.w /\ r.y <= p.y /\ p.y < r.y + r.h

\* Rect::quadrant: the half of the rectangle, by x midpoint and by y midpoint, that
\* the point falls in.
quadrant(r, p) ==
    IF p.x < r.x + (r.w \div 2)
    THEN (IF p.y < r.y + (r.h \div 2) THEN "TopLeft" ELSE "BottomLeft")
    ELSE (IF p.y < r.y + (r.h \div 2) THEN "TopRight" ELSE "BottomRight")

\* ResizeRect with a TopLeft arm that leaves the origin where it was.
ResizeRectOriginKept(r, q, delta) ==
    CASE q = "TopLeft" ->
            Rect(r.x, r.y, U16(Max(1, r.w - delta.x)), U16(Max(1, r.h - delta.y)))
      [] q = "TopRight" ->
            Rect(r.x, I16(r.y + delta.y),
                 U16(Max(1, r.w + delta.x)), U16(Max(1, r.h - delta.y)))
      [] q = "BottomLeft" ->
            Rect(I16(r.x + delta.x), r.y,
                 U16(Max(1, r.w - delta.x)), U16(Max(1, r.h + delta.y)))
      [] q = "BottomRight" ->
            Rect(r.x, r.y,
                 U16(Max(1, r.w + delta.x)), U16(Max(1, r.h + delta.y)))

\* The rectangle a resize drag requests (on_motion_notify, DragType::Resize).
ResizeRect(r, q, delta) ==
    CASE q = "TopLeft" ->
            Rect(I16(r.x + delta.x), I16(r.y + delta.y),
                 U16(Max(1, r.w - delta.x)), U16(Max(1, r.h - delta.y)))
      [] q = "TopRight" ->
            Rect(r.x, I16(r.y + delta.y),
                 U16(Max(1, r.w + delta.x)), U16(Max(1, r.h - delta.y)))
      [] q = "BottomLeft" ->
            Rect(I16(r.x + delta.x), r.y,
                 U16(Max(1, r.w - delta.x)), U16(Max(1, r.h + delta.y)))
      [] q = "BottomRight" ->
            Rect(r.x, r.y,
                 U16(Max(1, r.w + delta.x)), U16(Max(1, r.h + delta.y)))

\* i16 arithmetic that leaves the type's range panics in a build with overflow
\* checks and wraps around in one without: whether the handler panics.
InI16(v) == -32768 <= v /\ v <= 32767
OverflowOutcomes(overflow) == IF overflow THEN {TRUE, FALSE} ELSE {FALSE}

\* The position a move drag requests (on_motion_notify, DragType::Move).
MoveTarget(r, delta) == Point(I16(r.x + delta.x), I16(r.y + delta.y))
MoveOverflows(r, delta) == ~InI16(r.x + delta.x) \/ ~InI16(r.y + delta.y)

\* The i16 additions of the quadrant's arm of the resize.
ResizeOverflows(r, q, delta) ==
    \/ q \in {"TopLeft", "BottomLeft"} /\ ~InI16(r.x + delta.x)
    \/ q \in {"TopLeft", "TopRight"} /\ ~InI16(r.y + delta.y)

\* What Rect::quadrant answers: the quadrant of a point of the rectangle; for a
\* point outside it, that or None.
QuadrantOutcomes(r, p) ==
    IF Contains(r, p) THEN {quadrant(r, p)} ELSE {quadrant(r, p), "None"}

\* get_window_rect: the geometry the server reports for the window.
get_window_rect(w) == geom[w]

\* The rectangle a window covers in root coordinates.
AbsRect(w) ==
    IF w \in Clients /\ parent[w] # Root
    THEN Rect(geom[parent[w]].x + geom[w].x, geom[parent[w]].y + geom[w].y,
              geom[w].w, geom[w].h)
    ELSE geom[w]

\* A window is viewable when it and its parent are mapped.
Viewable(w) ==
    /\ w \in mapped
    /\ w \in frames \/ (w \in alive /\ (parent[w] = Root \/ parent[w] \in mapped))

\* The viewable windows that cover the point.
WindowsAt(p) == {w \in Windows : Viewable(w) /\ Contains(AbsRect(w), p)}

\* ------------------------------------------------------- the dispatcher
NoActionKinds == {"LeaveNotify", "Expose", "FocusIn", "FocusOut", "PropertyNotify",
                  "KeyRelease"}
IgnoredKinds == {"ReparentNotify", "CreateNotify", "DestroyNotify", "ConfigureNotify",
                 "MappingNotify", "MapNotify"}
UnknownKinds == {"GravityNotify", "CirculateRequest"}

\* The arm of handle_event's match that an event kind selects.
Dispatch(kind) ==
    CASE kind = "ConfigureRequest" -> "on_configure_request"
      [] kind = "MapRequest" -> "on_map_request"
      [] kind \in {"UnmapNotify", "UnmapNotify(root)"} -> "on_unmap_notify"
      [] kind = "KeyPress" -> "on_key_press"
      [] kind = "KeyRelease" -> "on_key_release"
      [] kind = "ButtonPress" -> "on_button_press"
      [] kind = "ButtonRelease" -> "on_button_release"
      [] kind = "MotionNotify" -> "on_motion_notify"
      [] kind = "EnterNotify" -> "on_enter_notify"
      [] kind = "LeaveNotify" -> "on_leave_notify"
      [] kind = "Expose" -> "on_expose"
      [] kind = "FocusIn" -> "on_focus_in"
      [] kind = "FocusOut" -> "on_focus_out"
      [] kind = "PropertyNotify" -> "on_property_notify"
      [] kind = "ClientMessage" -> "on_client_message"
      [] kind \in IgnoredKinds -> "ignored"
      [] OTHER -> "log"

\* An event, or a step of the environment, as the trace records it.
Event(kind, window, seq) ==
    [kind |-> kind, window |-> window, seq |-> seq, pos |-> << >>, state |-> {},
     detail |-> None]

\* A pointer event: the root coordinates of the pointer and the modifiers and
\* buttons of ev.state() that the handlers test.
PointerEvent(kind, window, p, state) ==
    [kind |-> kind, window |-> window, seq |-> None, pos |-> << p >>, state |-> state,
     detail |-> None]
\* A key event: the window found under the pointer, the modifiers and the keycode.
KeyEvent(kind, window, p, state, detail) ==
    [kind |-> kind, window |-> window, seq |-> None, pos |-> << p >>, state |-> state,
     detail |-> detail]

\* render running whatever the handler returned.
RenderAlways(handler_ok) == TRUE

\* render runs after the handler only when the handler returned Ok: every arm
\* ends in `?`.
RenderRuns(handler_ok) == handler_ok

\* handle_event for the event e whose handler runs `steps`, the server rejecting
\* the checked step `fault` (0: none). When the handler panics before its first
\* request (`panics`), the process ends there.
HandleEventOf(e, steps, fault, panics) ==
    LET fail == FirstFail(steps, fault)
        L == IF panics THEN << >> ELSE Issued(steps, fail)
    IN /\ status = "running"
       /\ ServerStep(L)
       /\ framed_clients' = RegistryAfter(L)
       /\ status' = IF panics THEN "panicked"
                    ELSE IF KillsManager(L) THEN "killed" ELSE "running"
       /\ Trace(e, << Dispatch(e.kind) >>, L,
                IF panics THEN "Panic" ELSE IF fail = 0 THEN "Ok" ELSE "Err",
                ~panics /\ RenderRuns(fail = 0))
       /\ UNCHANGED <<tracing, rejects>>

\* handle_event for an event of `kind` on `window` with sequence number `seq`.
HandleEvent(kind, window, seq, steps, fault) ==
    HandleEventOf(Event(kind, window, seq), steps, fault, FALSE)

\* generate_id: an id no window of the manager holds.
generate_id == Min(FrameIds \ (frames \cup {p[2] : p \in framed_clients}))

\* window_at_pos: a window that covers the point, None when there is none. Which
\* of a frame and the client inside it is returned is left open.
window_at_pos(p) == IF WindowsAt(p) = {} THEN {None} ELSE WindowsAt(p)

\* ---------------------------------------------------------- the handlers
on_configure_request(window, rect) ==
    LET value_list == [x |-> rect.x, y |-> rect.y, w |-> rect.w, h |-> rect.h]
        frame_id == get_by_left(framed_clients, window)
        steps == ( IF frame_id # None
                   THEN << Req("ConfigureWindow", frame_id, value_list, TRUE, frame_id) >>
                   ELSE << >> ) \o
                 << Req("ConfigureWindow", window, value_list, TRUE, window) >>
    IN \E fault \in Faults(steps) :
       /\ HandleEvent("ConfigureRequest", window, None, steps, fault)
       /\ UNCHANGED <<ignored_sequences, drag_start, drag_start_frame_rect,
                      focused_window, ev_queue, focus_follows_mouse>>

on_map_request(window, seq) ==
    /\ FrameIds \ (frames \cup {p[2] : p \in framed_clients}) # {}
    /\ LET frame == generate_id
           steps == FrameWindowSteps(window, frame) \o
                    << Req("MapWindow", window, None, TRUE, window) >>
       IN \E fault \in Faults(steps) :
          /\ ignored_sequences' = add(ignored_sequences, seq)
          /\ HandleEvent("MapRequest", window, seq, steps, fault)
          /\ focused_window' =
                 IF FirstFail(steps, fault) = 0 THEN frame ELSE focused_window
          /\ UNCHANGED <<drag_start, drag_start_frame_rect, ev_queue,
                         focus_follows_mouse>>

\* on_unmap_notify that looks at the container before it marks the sequence.
on_unmap_notify_root_first(window, event, seq) ==
    LET steps == IF event = Root THEN << >> ELSE unframe_window(window)
    IN \E fault \in Faults(steps) :
       /\ ignored_sequences' =
              IF event = Root THEN ignored_sequences
              ELSE add_with_type(ignored_sequences, seq, ENTER_NOTIFY)
       /\ HandleEvent(IF event = Root THEN "UnmapNotify(root)" ELSE "UnmapNotify",
                      window, seq, steps, fault)
       /\ UNCHANGED <<drag_start, drag_start_frame_rect, focused_window, ev_queue,
                      focus_follows_mouse>>

on_unmap_notify(window, event, seq) ==
    LET steps == IF event = Root THEN << >> ELSE unframe_window(window)
    IN \E fault \in Faults(steps) :
       /\ ignored_sequences' = add_with_type(ignored_sequences, seq, ENTER_NOTIFY)
       /\ HandleEvent(IF event = Root THEN "UnmapNotify(root)" ELSE "UnmapNotify",
                      window, seq, steps, fault)
       /\ UNCHANGED <<drag_start, drag_start_frame_rect, focused_window, ev_queue,
                      focus_follows_mouse>>

\* on_key_press that tries the kill chord before the quit chord.
on_key_press_kill_first(ctrl, shift, detail, p) ==
    LET state == (IF ctrl THEN {"Control"} ELSE {}) \cup (IF shift THEN {"Shift"} ELSE {})
    IN \E under \in window_at_pos(p) :
       LET kill == under # None /\ ctrl /\ detail = KEY_Q
           quit == ~kill /\ ctrl /\ shift /\ detail = KEY_Q
           steps == IF kill THEN kill_window(under) ELSE << >>
       IN \E fault \in Faults(steps) :
          /\ quit => ev_queue < MaxQueue
          /\ (kill /\ under \in Clients) => inbox[under] < MaxInbox
          /\ ev_queue' = IF quit THEN ev_queue + 1 ELSE ev_queue
          /\ HandleEventOf(KeyEvent("KeyPress", under, p, state, detail),
                           steps, fault, FALSE)
          /\ UNCHANGED <<ignored_sequences, drag_start, drag_start_frame_rect,
                         focused_window, focus_follows_mouse>>

on_key_press(ctrl, shift, detail, p) ==
    LET quit == ctrl /\ shift /\ detail = KEY_Q
        state == (IF ctrl THEN {"Control"} ELSE {}) \cup (IF shift THEN {"Shift"} ELSE {})
    IN IF quit
       THEN /\ ev_queue < MaxQueue
            /\ ev_queue' = ev_queue + 1
            /\ HandleEventOf(KeyEvent("KeyPress", None, p, state, detail), << >>, 0, FALSE)
            /\ UNCHANGED <<ignored_sequences, drag_start, drag_start_frame_rect,
                           focused_window, focus_follows_mouse>>
       ELSE \E under \in window_at_pos(p) :
            LET kill == under # None /\ ctrl /\ detail = KEY_Q
                steps == IF kill THEN kill_window(under) ELSE << >>
            IN \E fault \in Faults(steps) :
               /\ (kill /\ under \in Clients) => inbox[under] < MaxInbox
               /\ HandleEventOf(KeyEvent("KeyPress", under, p, state, detail),
                                steps, fault, FALSE)
               /\ UNCHANGED <<ignored_sequences, drag_start, drag_start_frame_rect,
                              focused_window, ev_queue, focus_follows_mouse>>

\* on_button_press that focuses its target even when the registry does not know it.
on_button_press_focus_any(target, ctrl, p) ==
    LET fw == get_frame_and_window(target)
        window == fw[1]
        frame == fw[2]
        found == window # None
        drag == found /\ (ctrl \/ target = frame)
        steps == IF ~found THEN << >>
                 ELSE ( IF drag
                        THEN << Req("GetGeometry", frame, None, TRUE, frame) >>
                        ELSE << >> ) \o
                      << Req("ConfigureWindow", frame, [stack |-> "Above"], TRUE, frame) >>
    IN \E fault \in Faults(steps) :
       LET got_rect == drag /\ Done(FirstFail(steps, fault), 1)
       IN /\ drag_start' = IF drag THEN << p >> ELSE drag_start
          /\ drag_start_frame_rect' =
                 IF got_rect THEN << get_window_rect(frame) >> ELSE drag_start_frame_rect
          /\ focused_window' =
                 IF found /\ (~drag \/ got_rect) THEN window
                 ELSE IF ~found THEN target ELSE focused_window
          /\ HandleEventOf(PointerEvent("ButtonPress", target, p,
                                        IF ctrl THEN {"Control"} ELSE {}),
                           steps, fault, FALSE)
          /\ UNCHANGED <<ignored_sequences, ev_queue, focus_follows_mouse>>

\* on_button_press that starts a drag only when the modifier is held.
on_button_press_modifier_only(target, ctrl, p) ==
    LET fw == get_frame_and_window(target)
        window == fw[1]
        frame == fw[2]
        found == window # None
        drag == found /\ ctrl
        steps == IF ~found THEN << >>
                 ELSE ( IF drag
                        THEN << Req("GetGeometry", frame, None, TRUE, frame) >>
                        ELSE << >> ) \o
                      << Req("ConfigureWindow", frame, [stack |-> "Above"], TRUE, frame) >>
    IN \E fault \in Faults(steps) :
       LET got_rect == drag /\ Done(FirstFail(steps, fault), 1)
       IN /\ drag_start' = IF drag THEN << p >> ELSE drag_start
          /\ drag_start_frame_rect' =
                 IF got_rect THEN << get_window_rect(frame) >> ELSE drag_start_frame_rect
          /\ focused_window' =
                 IF found /\ (~drag \/ got_rect) THEN window ELSE focused_window
          /\ HandleEventOf(PointerEvent("ButtonPress", target, p,
                                        IF ctrl THEN {"Control"} ELSE {}),
                           steps, fault, FALSE)
          /\ UNCHANGED <<ignored_sequences, ev_queue, focus_follows_mouse>>

on_button_press(target, ctrl, p) ==
    LET fw == get_frame_and_window(target)
        window == fw[1]
        frame == fw[2]
        found == window # None
        drag == found /\ (ctrl \/ target = frame)
        steps == IF ~found THEN << >>
                 ELSE ( IF drag
                        THEN << Req("GetGeometry", frame, None, TRUE, frame) >>
                        ELSE << >> ) \o
                      << Req("ConfigureWindow", frame, [stack |-> "Above"], TRUE, frame) >>
    IN \E fault \in Faults(steps) :
       LET got_rect == drag /\ Done(FirstFail(steps, fault), 1)
       IN /\ drag_start' = IF drag THEN << p >> ELSE drag_start
          /\ drag_start_frame_rect' =
                 IF got_rect THEN << get_window_rect(frame) >> ELSE drag_start_frame_rect
          /\ focused_window' =
                 IF found /\ (~drag \/ got_rect) THEN window ELSE focused_window
          /\ HandleEventOf(PointerEvent("ButtonPress", target, p,
                                        IF ctrl THEN {"Control"} ELSE {}),
                           steps, fault, FALSE)
          /\ UNCHANGED <<ignored_sequences, ev_queue, focus_follows_mouse>>

\* on_motion_notify that moves the frame when no button is held, too.
on_motion_notify_unheld(target, p, button1, button3) ==
    LET window == get_frame_and_window(target)[1]
        active == window # None /\ drag_start # << >> /\ drag_start_frame_rect # << >>
        anchor == drag_start[1]
        r == drag_start_frame_rect[1]
        raw == Point(p.x - anchor.x, p.y - anchor.y)
        delta == Point(I16(raw.x), I16(raw.y))
        resize == active /\ ~button1 /\ button3
    IN \E q \in (IF resize THEN QuadrantOutcomes(r, anchor) ELSE {"None"}) :
       LET steps == IF ~active THEN << >>
                    ELSE IF button1 \/ ~button3
                         THEN move_window(window, MoveTarget(r, delta))
                         ELSE IF button3 /\ q # "None"
                              THEN resize_window(window, ResizeRect(r, q, delta))
                              ELSE << >>
           overflow == /\ active
                       /\ \/ ~InI16(raw.x) \/ ~InI16(raw.y)
                          \/ button1 /\ MoveOverflows(r, delta)
                          \/ resize /\ q # "None" /\ ResizeOverflows(r, q, delta)
       IN \E fault \in Faults(steps), panics \in OverflowOutcomes(overflow) :
          /\ HandleEventOf(PointerEvent("MotionNotify", target, p,
                                        (IF button1 THEN {"Button1"} ELSE {}) \cup
                                        (IF button3 THEN {"Button3"} ELSE {})),
                           steps, fault, panics)
          /\ UNCHANGED <<ignored_sequences, drag_start, drag_start_frame_rect,
                         focused_window, ev_queue, focus_follows_mouse>>

on_motion_notify(target, p, button1, button3) ==
    LET window == get_frame_and_window(target)[1]
        active == window # None /\ drag_start # << >> /\ drag_start_frame_rect # << >>
        anchor == drag_start[1]
        r == drag_start_frame_rect[1]
        raw == Point(p.x - anchor.x, p.y - anchor.y)
        delta == Point(I16(raw.x), I16(raw.y))
        resize == active /\ ~button1 /\ button3
    IN \E q \in (IF resize THEN QuadrantOutcomes(r, anchor) ELSE {"None"}) :
       LET steps == IF ~active THEN << >>
                    ELSE IF button1
                         THEN move_window(window, MoveTarget(r, delta))
                         ELSE IF button3 /\ q # "None"
                              THEN resize_window(window, ResizeRect(r, q, delta))
                              ELSE << >>
           overflow == /\ active
                       /\ \/ ~InI16(raw.x) \/ ~InI16(raw.y)
                          \/ button1 /\ MoveOverflows(r, delta)
                          \/ resize /\ q # "None" /\ ResizeOverflows(r, q, delta)
       IN \E fault \in Faults(steps), panics \in OverflowOutcomes(overflow) :
          /\ HandleEventOf(PointerEvent("MotionNotify", target, p,
                                        (IF button1 THEN {"Button1"} ELSE {}) \cup
                                        (IF button3 THEN {"Button3"} ELSE {})),
                           steps, fault, panics)
          /\ UNCHANGED <<ignored_sequences, drag_start, drag_start_frame_rect,
                         focused_window, ev_queue, focus_follows_mouse>>

\* on_button_release that looks its target up first, as press and motion do.
on_button_release_known_only(target) ==
    LET found == get_frame_and_window(target)[1] # None
    IN /\ drag_start' = IF found THEN << >> ELSE drag_start
       /\ drag_start_frame_rect' = IF found THEN << >> ELSE drag_start_frame_rect
       /\ HandleEvent("ButtonRelease", target, None, << >>, 0)
       /\ UNCHANGED <<ignored_sequences, focused_window, ev_queue, focus_follows_mouse>>

on_button_release(target) ==
    /\ drag_start' = << >>
    /\ drag_start_frame_rect' = << >>
    /\ HandleEvent("ButtonRelease", target, None, << >>, 0)
    /\ UNCHANGED <<ignored_sequences, focused_window, ev_queue, focus_follows_mouse>>

\* on_enter_notify with a filter that answers without consuming the record.
on_enter_notify_peek(target, seq) ==
    LET ignore == is_ignored(ignored_sequences, seq, ENTER_NOTIFY)
    IN /\ focused_window' =
              IF ~ignore /\ focus_follows_mouse
              THEN ( IF get_by_right(framed_clients, target) # None
                     THEN get_by_right(framed_clients, target) ELSE target )
              ELSE focused_window
       /\ HandleEvent("EnterNotify", target, seq, << >>, 0)
       /\ UNCHANGED <<ignored_sequences, drag_start, drag_start_frame_rect, ev_queue,
                      focus_follows_mouse>>

\* on_enter_notify that follows the pointer whatever the setting.
on_enter_notify_always_follows(target, seq) ==
    LET ignore == is_ignored(ignored_sequences, seq, ENTER_NOTIFY)
    IN /\ ignored_sequences' =
              IF ignore THEN IgnConsume(ignored_sequences, seq, ENTER_NOTIFY)
              ELSE ignored_sequences
       /\ focused_window' =
              IF ~ignore
              THEN ( IF get_by_right(framed_clients, target) # None
                     THEN get_by_right(framed_clients, target) ELSE target )
              ELSE focused_window
       /\ HandleEvent("EnterNotify", target, seq, << >>, 0)
       /\ UNCHANGED <<drag_start, drag_start_frame_rect, ev_queue, focus_follows_mouse>>

on_enter_notify(target, seq) ==
    LET ignore == is_ignored(ignored_sequences, seq, ENTER_NOTIFY)
    IN /\ ignored_sequences' =
              IF ignore THEN IgnConsume(ignored_sequences, seq, ENTER_NOTIFY)
              ELSE ignored_sequences
       /\ focused_window' =
              IF ~ignore /\ focus_follows_mouse
              THEN ( IF get_by_right(framed_clients, target) # None
                     THEN get_by_right(framed_clients, target) ELSE target )
              ELSE focused_window
       /\ HandleEvent("EnterNotify", target, seq, << >>, 0)
       /\ UNCHANGED <<drag_start, drag_start_frame_rect, ev_queue, focus_follows_mouse>>

on_client_message(window, is_sync) ==
    LET steps == IF is_sync
                 THEN << Req("SendEvent", window, "R3_SYNC", FALSE, window),
                         Req("Flush", None, None, TRUE, None) >>
                 ELSE << >>
    IN \E fault \in Faults(steps) :
       /\ HandleEvent("ClientMessage", window, None, steps, fault)
       /\ UNCHANGED <<ignored_sequences, drag_start, drag_start_frame_rect,
                      focused_window, ev_queue, focus_follows_mouse>>

\* on_key_release, on_leave_notify, on_expose, on_focus_in, on_focus_out and
\* on_property_notify return Ok(()); the arms of the ignored kinds are empty; any
\* other kind is printed.
on_other(kind) ==
    /\ HandleEvent(kind, None, None, << >>, 0)
    /\ UNCHANGED <<ignored_sequences, drag_start, drag_start_frame_rect,
                   focused_window, ev_queue, focus_follows_mouse>>

\* handle_event panicking on a connection error only.
event_wait_error_lenient(kind) ==
    /\ status = "running"
    /\ status' = IF kind = "Connection" THEN "panicked" ELSE "running"
    /\ Trace(Event(kind, None, None), << >>, << >>,
             IF kind = "Connection" THEN "Panic" ELSE "Ok", FALSE)
    /\ UNCHANGED <<wm_vars, server_vars, tracing, rejects>>

\* handle_event on an error returned by the event wait: both arms panic.
event_wait_error(kind) ==
    /\ status = "running"
    /\ status' = "panicked"
    /\ Trace(Event(kind, None, None), << >>, << >>, "Panic", FALSE)
    /\ UNCHANGED <<wm_vars, server_vars, tracing, rejects>>

\* --------------------------------------------------- the command queue
\* The loop drains the command queue once per iteration: Exit ends the manager,
\* CloseWindow kills the focused client.
drain_exit ==
    /\ status = "running"
    /\ ev_queue > 0
    /\ ev_queue' = ev_queue - 1
    /\ status' = "exited"
    /\ Trace(Event("Exit", None, None), << >>, << >>, "Ok", FALSE)
    /\ UNCHANGED <<framed_clients, ignored_sequences, drag_start, drag_start_frame_rect,
                   focused_window, focus_follows_mouse, server_vars, tracing, rejects>>

drain_close_window ==
    LET fw == get_frame_and_window(focused_window)
        window == IF fw[1] # None THEN fw[1] ELSE focused_window
        steps == IF focused_window = None THEN << >> ELSE kill_window(window)
    IN \E fault \in Faults(steps) :
       LET fail == FirstFail(steps, fault)
           L == Issued(steps, fail)
       IN /\ status = "running"
          /\ window \in Clients => inbox[window] < MaxInbox
          /\ ServerStep(L)
          /\ status' = IF KillsManager(L) THEN "killed" ELSE "running"
          /\ Trace(Event("CloseWindow", window, None), << >>, L,
                   IF fail = 0 THEN "Ok" ELSE "Err", FALSE)
          /\ UNCHANGED <<wm_vars, tracing, rejects>>

\* ------------------------------------------------------ the environment
\* A client closes its window.
client_close(c) ==
    LET L == << [op |-> "KillClient", w |-> c, arg |-> None, ok |-> TRUE] >>
    IN /\ c \in alive
       /\ ServerStep(L)
       /\ Trace(Event("ClientClose", c, None), << >>, << >>, "Ok", FALSE)
       /\ UNCHANGED <<wm_vars, status, tracing, rejects>>

\* A client that was asked to close reads the message and closes its window.
client_accept_close(c) ==
    /\ inbox[c] > 0
    /\ client_close(c)

\* A client declares that it supports WM_DELETE_WINDOW (ChangeProperty on
\* WM_PROTOCOLS).
client_declare_delete(c) ==
    /\ c \in alive
    /\ c \notin protocols
    /\ protocols' = protocols \cup {c}
    /\ Trace(Event("ClientDeclare", c, None), << >>, << >>, "Ok", FALSE)
    /\ UNCHANGED <<wm_vars, status, tracing, rejects, alive, frames, parent, mapped,
                   save_set, geom, inbox>>

\* ------------------------------------------------------ the specification
InitWith(trace, ffm, rej) ==
    /\ framed_clients = {}
    /\ ignored_sequences = << >>
    /\ drag_start = << >>
    /\ drag_start_frame_rect = << >>
    /\ focused_window = None
    /\ ev_queue = 0
    /\ focus_follows_mouse \in ffm
    /\ alive = Clients
    /\ frames = {}
    /\ parent = [c \in Clients |-> Root]
    /\ mapped = {}
    /\ save_set = {}
    /\ geom = [w \in Windows |-> IF w \in Clients THEN InitRect ELSE NoRect]
    /\ protocols = {}
    /\ inbox = [c \in Clients |-> 0]
    /\ status = "running"
    /\ ev = Event("Init", None, None)
    /\ arm = << >>
    /\ reqs = << >>
    /\ result = "Ok"
    /\ rendered = FALSE
    /\ tracing = trace
    /\ rejects = rej

Init == InitWith("full", {TRUE}, TRUE)

\* The events, each with the sets its inputs are drawn from: clients C, targets T,
\* pointer positions P, requested rectangles R, sequence numbers S.
EvConfigure(C, R) == \E w \in C, r \in R : on_configure_request(w, r)
EvMap(C, S) == \E w \in C, s \in S : on_map_request(w, s)
EvUnmap(C, S) == \E w \in C, e \in {Root, FirstFrameId}, s \in S : on_unmap_notify(w, e, s)
EvKeyPress(Ctrl, Shift, P) ==
    \E c \in Ctrl, sh \in Shift, p \in P : on_key_press(c, sh, KEY_Q, p)
EvButtonPress(T, Ctrl, P) == \E t \in T, c \in Ctrl, p \in P : on_button_press(t, c, p)
EvMotion(T, P) ==
    \E t \in T, p \in P, b1 \in Bools, b3 \in Bools : on_motion_notify(t, p, b1, b3)
EvButtonRelease(T) == \E t \in T : on_button_release(t)
EvEnter(T, S) == \E t \in T, s \in S : on_enter_notify(t, s)
EvClientMessage(C, Y) == \E w \in C, y \in Y : on_client_message(w, y)
EvOther == \E kind \in {"KeyRelease", "MapNotify", "GravityNotify"} : on_other(kind)
EvWaitError == \E kind \in {"Connection", "Protocol"} : event_wait_error(kind)

P0 == {Point(1, 1)}

\* A button-press reaches a framed window only with the pointer over its frame.
PointerOver(t, p) ==
    LET frame == get_frame_and_window(t)[2]
    IN frame # None => Contains(geom[frame], p)

EvPressOver(T, Ctrl, P) ==
    \E t \in T, c \in Ctrl, p \in P : PointerOver(t, p) /\ on_button_press(t, c, p)

\* The server turns a map into a map-request only for a window that is unmapped.
EvMapUnmapped(C, S) == \E w \in C \ mapped, s \in S : on_map_request(w, s)

\* Motion that keeps every window within the extent of the model.
WithinExtent(g) ==
    /\ -MaxExtent <= g.x /\ g.x <= MaxExtent /\ -MaxExtent <= g.y /\ g.y <= MaxExtent
    /\ g.w <= MaxExtent /\ g.h <= MaxExtent

EvMotionWithin(T, P) ==
    \E t \in T, p \in P, b1 \in Bools, b3 \in Bools :
        /\ on_motion_notify(t, p, b1, b3)
        /\ \A w \in Windows : WithinExtent(geom'[w])

\* Framing and unframing of one client.
Next ==
    \/ EvMap({1}, {0})
    \/ EvUnmap({1}, {0})
    \/ EvConfigure({1}, {InitRect})
    \/ client_close(1)

Spec == Init /\ [][Next]_vars

\* Closing one client: the kill chord, the CloseWindow command, and a client that
\* may declare WM_DELETE_WINDOW and close itself once asked to.
NextKill ==
    \/ EvMap({1}, {0})
    \/ EvUnmap({1}, {0})
    \/ EvKeyPress({TRUE}, {FALSE}, P0)
    \/ drain_close_window
    \/ client_declare_delete(1)
    \/ client_accept_close(1)

SpecKill == Init /\ [][NextKill]_vars

\* The dispatcher: every kind of event and the errors of the event wait, for one
\* client.
NextAll ==
    \/ EvMap({1}, {0})
    \/ EvUnmap({1}, {0})
    \/ EvConfigure({1}, {InitRect})
    \/ EvKeyPress({TRUE}, {FALSE}, P0)
    \/ EvButtonPress({1}, {FALSE}, P0)
    \/ EvMotion({1}, P0)
    \/ EvButtonRelease({1})
    \/ EvEnter({1}, {0})
    \/ EvClientMessage({1}, {TRUE})
    \/ EvOther
    \/ EvWaitError

InitAll == InitWith("outcome", {TRUE}, TRUE)

SpecAll == InitAll /\ [][NextAll]_vars

\* Two clients under the handlers that write the registry or read it.
InitBij == InitWith("off", {TRUE}, TRUE)

NextBij ==
    \/ EvMap(Clients, {0})
    \/ EvUnmap(Clients, {0})
    \/ EvConfigure(Clients, {InitRect})
    \/ EvButtonPress({1, FirstFrameId}, {FALSE}, P0)
    \/ EvButtonRelease({1})
    \/ EvEnter({2}, {0})
    \/ EvOther
    \/ client_close(2)

SpecBij == InitBij /\ [][NextBij]_vars

\* The sequence filter under the handlers that record and query it, with every
\* sequence number and a server that rejects no request on a window that exists.
NextSeq ==
    \/ EvMap({1}, Seqs)
    \/ EvUnmap({1}, Seqs)
    \/ EvEnter({1, FirstFrameId}, Seqs)

InitSeq == InitWith("event", {TRUE}, FALSE)

SpecSeq == InitSeq /\ [][NextSeq]_vars

\* Focus: the pointer enters clients, frames and unmanaged windows, with
\* focus-follows-mouse enabled or disabled, among map and unmap events whose
\* sequence numbers the filter records, and presses that focus and start a drag.
NextFocus ==
    \/ EvMap({1}, Seqs)
    \/ EvUnmap({1}, Seqs)
    \/ EvEnter({1, 2, FirstFrameId}, Seqs)
    \/ EvButtonPress({1}, {TRUE}, P0)

InitFocus == InitWith("event", Bools, FALSE)

SpecFocus == InitFocus /\ [][NextFocus]_vars

\* The keyboard: every combination of the two modifiers with the chord's key and
\* with another key, the pointer over the framed client and over no window.
Keys == {KEY_Q, KEY_Q + 1}
PKey == {Point(1, 1), Point(5, 5)}

EvKey(Ctrl, Shift, K, P) ==
    \E c \in Ctrl, sh \in Shift, k \in K, p \in P : on_key_press(c, sh, k, p)

NextKey ==
    \/ EvMapUnmapped({1}, {0})
    \/ EvKey(Bools, Bools, Keys, PKey)
    \/ drain_exit
    \/ client_declare_delete(1)
    \/ client_accept_close(1)

InitKey == InitWith("full", {TRUE}, FALSE)

SpecKey == InitKey /\ [][NextKey]_vars

\* Presses and releases on a framed client and on its frame, with a server that
\* may reject any checked request.
NextPress ==
    \/ EvMapUnmapped({1}, {0})
    \/ EvButtonPress({1, FirstFrameId}, Bools, P0)
    \/ EvButtonRelease({1})

SpecPress == Init /\ [][NextPress]_vars

\* Dragging one framed client: presses on the client, on its frame and on a
\* window the manager does not know, motion among three pointer positions, and
\* releases.
PDrag == {Point(0, 0), Point(0, 1), Point(1, 1)}
TDrag == {1, 2, FirstFrameId}

NextDrag ==
    \/ EvMapUnmapped({1}, {0})
    \/ EvPressOver(TDrag, Bools, PDrag)
    \/ EvMotionWithin({1, 2}, PDrag)
    \/ EvButtonRelease({1, 2})

InitDrag == InitWith("full", {TRUE}, FALSE)

SpecDrag == InitDrag /\ [][NextDrag]_vars

\* The geometry of one framed client under everything that sets it: framing,
\* configure-requests, and drags that move or resize.
ConfRects == {Rect(0, 0, 2, 2), Rect(1, 0, 2, 1), Rect(0, 1, 1, 2)}

NextGeom ==
    \/ EvMapUnmapped({1}, {0})
    \/ EvConfigure({1}, ConfRects)
    \/ EvPressOver({1}, {TRUE}, PDrag)
    \/ EvMotionWithin({1}, PDrag)
    \/ EvButtonRelease({1})

SpecGeom == InitDrag /\ [][NextGeom]_vars

\* Two framed clients, drags that start on client 1 only, and motion events that
\* name either client.
NextTwo ==
    \/ EvMapUnmapped(Clients, {0})
    \/ EvPressOver({1}, {TRUE}, P0)
    \/ EvMotionWithin(Clients, PDrag)
    \/ EvButtonRelease({1})

SpecTwo == InitDrag /\ [][NextTwo]_vars

\* The arithmetic of a drag at the ends of the 16-bit types: client 1 is framed,
\* its frame has one of the rectangles ArithRects and a drag began with the pointer
\* at a point of the frame; the pointer then moves over the screen.
ArithRects ==
    {Rect(x, 0, w, h) : x \in {-32768, 0}, w \in {2, 65535}, h \in {2, 65535}}
ArithPoints == {Point(0, 1), Point(1, 1), Point(3, 3), Point(32767, 3)}

InitArith ==
    \E r \in ArithRects : \E a \in {p \in ArithPoints : Contains(r, p)} :
        /\ framed_clients = {<<1, FirstFrameId>>}
        /\ ignored_sequences = << [seq |-> 0, ty |-> None] >>
        /\ drag_start = << a >>
        /\ drag_start_frame_rect = << r >>
        /\ focused_window = 1
        /\ ev_queue = 0
        /\ focus_follows_mouse = TRUE
        /\ alive = Clients
        /\ frames = {FirstFrameId}
        /\ parent = [c \in Clients |-> IF c = 1 THEN FirstFrameId ELSE Root]
        /\ mapped = {1, FirstFrameId}
        /\ save_set = {1}
        /\ geom = [w \in Windows |->
                     IF w = FirstFrameId THEN r
                     ELSE IF w = 1 THEN Rect(0, 0, r.w, r.h)
                     ELSE IF w \in Clients THEN InitRect ELSE NoRect]
        /\ protocols = {}
        /\ inbox = [c \in Clients |-> 0]
        /\ status = "running"
        /\ ev = PointerEvent("ButtonPress", 1, a, {"Control"})
        /\ arm = << "on_button_press" >>
        /\ reqs = << >>
        /\ result = "Ok"
        /\ rendered = TRUE
        /\ tracing = "full"
        /\ rejects = FALSE

NextArith == EvMotion({1}, ArithPoints)

SpecArith == InitArith /\ [][NextArith]_vars

\* ------------------------------------------------------------ properties
\* The positions in the trace of the requests `op` on window w.
AtIn(L, op, w) == {i \in DOMAIN L : L[i].op = op /\ L[i].w = w}
At(op, w) == AtIn(reqs, op, w)
OpsIn(L, op) == {i \in DOMAIN L : L[i].op = op}

\* The entries of the registry for client w.
EntriesOf(w) == {p \in framed_clients : p[1] = w}

\* C1: when a map-request is handled without a request error, the registry holds
\* exactly one entry for the client, client -> the frame this handler created, and
\* MapWindow of the frame was issued before MapWindow of the client.
C1_MapRequestFramesThenMaps ==
    (ev.kind = "MapRequest" /\ result = "Ok") =>
        LET w == ev.window
            f == get_by_left(framed_clients, w)
        IN /\ Cardinality(EntriesOf(w)) = 1
           /\ At("CreateWindow", f) # {}
           /\ At("MapWindow", f) # {}
           /\ At("MapWindow", w) # {}
           /\ \A j \in At("MapWindow", w) : \E i \in At("MapWindow", f) : i < j

\* A map-request for client 1 was handled without error: the client is framed and
\* both windows are mapped.
C1_Witness ==
    /\ ev.kind = "MapRequest" /\ ev.window = 1 /\ result = "Ok"
    /\ EntriesOf(1) # {}
    /\ {1, get_by_left(framed_clients, 1)} \subseteq mapped

\* C3: an unframe_window that completes successfully on a registered client leaves no
\* entry for it; on a client that is not registered it issues no request and leaves
\* the registry, the drag state, the focus, the command queue and the server as
\* they were.
C3_UnframeRemovesOrNoop ==
    [][ ev'.kind = "UnmapNotify" =>
            LET w == ev'.window
            IN /\ (get_by_left(framed_clients, w) # None /\ result' = "Ok")
                      => get_by_left(framed_clients', w) = None
               /\ get_by_left(framed_clients, w) = None
                      => /\ reqs' = << >>
                         /\ result' = "Ok"
                         /\ UNCHANGED <<framed_clients, drag_start, drag_start_frame_rect,
                                        focused_window, ev_queue, server_vars>>
      ]_vars

\* unframe_window ran all its steps on client 1 and returned Ok; the entry is gone.
C3_Witness ==
    /\ ev.kind = "UnmapNotify" /\ ev.window = 1 /\ result = "Ok"
    /\ At("DestroyWindow", FirstFrameId) # {}
    /\ EntriesOf(1) = {}

\* C4: unframe_window on a registered client attempts every teardown step whatever
\* the outcome of the earlier ones, and never leaves the registry entry behind.
C4_TeardownNeverShortCircuits ==
    (ev.kind = "UnmapNotify" /\ reqs # << >>) =>
        /\ \A op \in {"UnmapWindow", "ReparentWindow", "ChangeSaveSet", "DestroyWindow"} :
               \E i \in DOMAIN reqs : reqs[i].op = op
        /\ EntriesOf(ev.window) = {}

\* C5: when a request of frame_window fails, the error is propagated and the client
\* is left unframed: no registry entry for it, its parent is not a frame, and no
\* frame this call created remains on the server.
C5_FailedFramingLeavesNothing ==
    (ev.kind = "MapRequest" /\ result = "Err" /\ At("MapWindow", ev.window) = {}) =>
        /\ EntriesOf(ev.window) = {}
        /\ ev.window \in alive => parent[ev.window] = Root
        /\ \A i \in DOMAIN reqs :
               (reqs[i].op = "CreateWindow" /\ reqs[i].ok) => reqs[i].w \notin frames

\* C2: the registry is a bijection in every reachable state: a client is a key of at
\* most one entry, a frame the value of at most one entry, and no window is both a
\* key and a value.
C2_RegistryIsBijection ==
    /\ \A p, q \in framed_clients : (p[1] = q[1] \/ p[2] = q[2]) => p = q
    /\ {p[1] : p \in framed_clients} \cap {p[2] : p \in framed_clients} = {}

\* Both clients are framed, each in a frame of its own.
C2_Witness ==
    /\ Cardinality(framed_clients) = 2
    /\ {p[1] : p \in framed_clients} = Clients

\* The steps that call kill_window, and the window they call it on.
KillKinds == {"KeyPress", "CloseWindow"}
KillStep(L) == L # << >> /\ L[1].op = "GetProperty" /\ L[1].ok

\* C6: kill_window on a client whose WM_PROTOCOLS holds WM_DELETE_WINDOW sends it
\* exactly one close message and no KillClient, however many close messages it
\* was sent before; the client is still there after the manager's step.
C6_GracefulKillSendsOneMessage ==
    [][ (ev'.kind \in KillKinds /\ KillStep(reqs') /\ ev'.window \in protocols) =>
            LET w == ev'.window
            IN /\ Cardinality(OpsIn(reqs', "SendEvent")) = 1
               /\ \A i \in OpsIn(reqs', "SendEvent") :
                      reqs'[i].w = w /\ reqs'[i].arg = "WM_DELETE_WINDOW"
               /\ OpsIn(reqs', "KillClient") = {}
               /\ w \in alive'
               /\ inbox'[w] = inbox[w] + 1
      ]_vars

\* Client 1 declared WM_DELETE_WINDOW, was asked to close twice and is still there.
C6_Witness ==
    /\ ev.kind \in KillKinds /\ ev.window = 1
    /\ 1 \in protocols /\ 1 \in alive
    /\ At("SendEvent", 1) # {}
    /\ inbox[1] >= 2

\* C7: kill_window on a mapped, framed client that never declared WM_DELETE_WINDOW
\* issues KillClient and no close message; once the unmap-notify that follows is
\* handled, the registry holds no entry for the client, its frame is destroyed and
\* the client's window is gone.
C7_ForcedKillThenUnframe ==
    [][ LET w == ev'.window
        IN /\ ( /\ ev'.kind \in KillKinds /\ KillStep(reqs')
                /\ w \in Clients \ protocols
                /\ EntriesOf(w) # {} /\ w \in mapped )
              => /\ AtIn(reqs', "KillClient", w) # {}
                 /\ OpsIn(reqs', "SendEvent") = {}
           /\ ( /\ ev'.kind = "UnmapNotify" /\ result' = "Ok"
                /\ w \in Clients \ (protocols \cup alive)
                /\ EntriesOf(w) # {} )
              => /\ get_by_left(framed_clients', w) = None
                 /\ get_by_left(framed_clients, w) \notin frames'
                 /\ w \notin alive'
      ]_vars

\* Client 1 never declared WM_DELETE_WINDOW and is gone, which only KillClient
\* brings about; its unmap-notify was handled: no entry, no frame, no window.
C7_Witness ==
    /\ ev.kind = "UnmapNotify" /\ ev.window = 1 /\ result = "Ok"
    /\ At("DestroyWindow", FirstFrameId) # {}
    /\ 1 \notin protocols /\ 1 \notin alive
    /\ framed_clients = {} /\ frames = {}

\* The kinds of step that are not events handled by a match arm of handle_event.
NotDispatched == {"Init", "Connection", "Protocol", "Exit", "CloseWindow", "ClientClose",
                  "ClientDeclare"}

\* C8 as stated: every event is routed to exactly one handler and render follows
\* whatever the handler returned.
C8_RenderAlwaysFollows ==
    ev.kind \notin NotDispatched => (Len(arm) = 1 /\ rendered)

\* C8: every event is routed to exactly one handler, the arm of its kind, and render
\* follows exactly when the handler returned Ok.
C8_RenderFollowsOk ==
    ev.kind \notin NotDispatched =>
        /\ Len(arm) = 1
        /\ arm[1] = Dispatch(ev.kind)
        /\ rendered <=> result = "Ok"

\* A map-request whose handler returned a request error: render did not run.
C8_Witness ==
    /\ ev.kind = "MapRequest" /\ arm = << "on_map_request" >>
    /\ result = "Err" /\ ~rendered

Recorded(buf, seq) == {i \in DOMAIN buf : buf[i].seq = seq}

Dragged ==
    /\ ev.kind = "MotionNotify"
    /\ get_frame_and_window(ev.window)[1] # None
    /\ drag_start # << >> /\ drag_start_frame_rect # << >>
MoveDragged == Dragged /\ "Button1" \in ev.state
ResizeDragged == Dragged /\ ev.state = {"Button3"}
DragAnchor == drag_start[1]
DragRect == drag_start_frame_rect[1]
DragDx == ev.pos[1].x - DragAnchor.x
DragDy == ev.pos[1].y - DragAnchor.y
DragFrame == get_frame_and_window(ev.window)[2]
\* The ConfigureWindow requests of the last handler for window w.
Configured(w) == {reqs[i].arg : i \in At("ConfigureWindow", w)}

\* A resize drag anchored in the top-left quadrant, the pointer having moved right
\* and down.
TopLeftGrown ==
    /\ ResizeDragged
    /\ quadrant(DragRect, DragAnchor) = "TopLeft"
    /\ DragDx > 0 /\ DragDy > 0

\* C11 as stated: a TopLeft resize by a positive delta keeps the bottom-right
\* corner of the requested rectangle where the corner of the original was, for
\* every such delta.
C11_CornerAlwaysFixed ==
    TopLeftGrown =>
        \A a \in Configured(DragFrame) :
            /\ a.x + a.w = DragRect.x + DragRect.w
            /\ a.y + a.h = DragRect.y + DragRect.h

\* C11: a TopLeft resize by a positive delta (dx, dy) requests the rectangle
\* (x + dx, y + dy, max(1, w - dx), max(1, h - dy)) for the frame; the right edge
\* x + w stays where it was exactly when dx < w and the bottom edge y + h exactly
\* when dy < h: from there on the dimension is clamped to 1 and the edge moves on
\* with the pointer.
C11_TopLeftResize ==
    TopLeftGrown =>
        /\ result = "Ok"
        /\ Configured(DragFrame) =
              { [x |-> DragRect.x + DragDx, y |-> DragRect.y + DragDy,
                 w |-> Max(1, DragRect.w - DragDx), h |-> Max(1, DragRect.h - DragDy)] }
        /\ \A a \in Configured(DragFrame) :
              /\ (a.x + a.w = DragRect.x + DragRect.w) <=> (DragDx < DragRect.w)
              /\ (a.y + a.h = DragRect.y + DragRect.h) <=> (DragDy < DragRect.h)

C11_Witness ==
    /\ TopLeftGrown /\ result = "Ok"
    /\ DragDx < DragRect.w /\ DragDy < DragRect.h
    /\ \E a \in Configured(DragFrame) : a.x = DragRect.x + DragDx /\ a.w = DragRect.w - DragDx

\* The rectangles of the extent, for resizing a window that has no frame.
ExtentRects ==
    {Rect(x, y, w, h) : x \in {-1, 0, 1}, y \in {0, 1}, w \in {1, 2}, h \in {1, 2}}

\* C12: when a resize of a framed client succeeds, the server's geometry of the
\* frame is the requested rectangle r and that of the client is (0, 0, r.w, r.h);
\* resize_window of a window that has no frame makes that window's geometry r.
C12_ResizeRoundTrip ==
    /\ (ResizeDragged /\ result = "Ok") =>
          \A a \in Configured(DragFrame) :
              /\ geom[DragFrame] = Rect(a.x, a.y, a.w, a.h)
              /\ geom[get_frame_and_window(ev.window)[1]] = Rect(0, 0, a.w, a.h)
    /\ \A c \in alive : get_by_left(framed_clients, c) = None =>
          \A r \in ExtentRects :
              LET steps == resize_window(c, r)
              IN /\ FirstFail(steps, 0) = 0
                 /\ SrvGeomOf(Issued(steps, 0), c) = r

C12_Witness ==
    /\ ResizeDragged /\ result = "Ok"
    /\ \E a \in Configured(DragFrame) :
          /\ a.x # 0 /\ a.w # InitRect.w
          /\ geom[DragFrame] = Rect(a.x, a.y, a.w, a.h)
    /\ \E c \in alive : get_by_left(framed_clients, c) = None

\* C13: every rectangle a resize drag requests has width >= 1 and height >= 1,
\* whatever 16-bit frame rectangle, anchor and pointer position it starts from.
C13_ResizeDimsPositive ==
    ResizeDragged =>
        \A i \in DOMAIN reqs :
            reqs[i].op = "ConfigureWindow" => reqs[i].arg.w >= 1 /\ reqs[i].arg.h >= 1

\* C14: every button-release, whatever its target, leaves no drag anchor and no
\* original rectangle, issues no request and succeeds; the registry and the
\* focused window stay as they were.
C14_ReleaseEndsDrag ==
    [][ev'.kind = "ButtonRelease" =>
          /\ drag_start' = << >> /\ drag_start_frame_rect' = << >>
          /\ result' = "Ok" /\ reqs' = << >>
          /\ framed_clients' = framed_clients
          /\ focused_window' = focused_window]_vars

\* A release on a registered client ended a drag: the client that the press
\* focused is still focused and still registered.
C14_Witness ==
    /\ ev.kind = "ButtonRelease" /\ ev.window = 1
    /\ drag_start = << >> /\ drag_start_frame_rect = << >>
    /\ focused_window = 1 /\ get_by_left(framed_clients, 1) # None
    /\ geom[FirstFrameId] # InitRect

\* The step handles a pointer event whose target the registry knows neither as a
\* client nor as a frame.
PointerKinds == {"ButtonPress", "MotionNotify", "ButtonRelease"}
UnknownTargetStep ==
    ev'.kind \in PointerKinds /\ get_frame_and_window(ev'.window)[1] = None

\* C15 as stated: a button-press, motion or button-release whose target is neither
\* a registered client nor a registered frame succeeds, issues no request and
\* leaves the drag state, the focus and the registry unchanged.
C15_UnknownTargetNoop ==
    [][UnknownTargetStep =>
          /\ result' = "Ok" /\ reqs' = << >>
          /\ UNCHANGED <<drag_start, drag_start_frame_rect, focused_window,
                         framed_clients>>]_vars

\* C15: a button-press or a motion whose target is neither a registered client nor
\* a registered frame succeeds, issues no request and leaves drag state, focus and
\* registry unchanged; a button-release on such a target also succeeds without a
\* request and leaves focus and registry, but ends the drag like every release.
C15_UnknownTargetPressMotionNoop ==
    [][UnknownTargetStep =>
          /\ result' = "Ok" /\ reqs' = << >>
          /\ UNCHANGED <<focused_window, framed_clients, server_vars>>
          /\ IF ev'.kind = "ButtonRelease"
             THEN drag_start' = << >> /\ drag_start_frame_rect' = << >>
             ELSE UNCHANGED <<drag_start, drag_start_frame_rect>>]_vars

\* A motion with button 1 held over an unknown window while a drag of client 1 is
\* in progress: nothing was requested.
C15_Witness ==
    /\ ev.kind = "MotionNotify" /\ ev.window = 2 /\ ev.state = {"Button1"}
    /\ get_frame_and_window(2)[1] = None
    /\ drag_start # << >> /\ drag_start_frame_rect # << >>
    /\ ev.pos[1] # drag_start[1]
    /\ reqs = << >> /\ result = "Ok"

\* C16: a button-press on a registered client or on its frame, handled without a
\* request error, starts a drag (anchor = the pointer's root coordinates, original
\* rectangle = the frame's geometry at that moment) exactly when the modifier is
\* held or the target is the frame itself, and otherwise leaves the drag state as
\* it was; either way the client becomes the focused window and a ConfigureWindow
\* that raises the frame is issued.
C16_PressStartsDragAndFocuses ==
    [][(/\ ev'.kind = "ButtonPress"
        /\ get_frame_and_window(ev'.window)[1] # None
        /\ result' = "Ok") =>
          LET window == get_frame_and_window(ev'.window)[1]
              frame == get_frame_and_window(ev'.window)[2]
          IN /\ IF "Control" \in ev'.state \/ ev'.window = frame
                THEN /\ drag_start' = << ev'.pos[1] >>
                     /\ drag_start_frame_rect' = << geom[frame] >>
                ELSE UNCHANGED <<drag_start, drag_start_frame_rect>>
             /\ focused_window' = window
             /\ \E i \in DOMAIN reqs' :
                   /\ reqs'[i].op = "ConfigureWindow" /\ reqs'[i].w = frame
                   /\ reqs'[i].arg = [stack |-> "Above"] /\ reqs'[i].ok]_vars

\* A press on the frame without the modifier started a drag of a frame that an
\* earlier drag had moved; the client is focused.
C16_Witness ==
    /\ ev.kind = "ButtonPress" /\ ev.window = FirstFrameId /\ ev.state = {}
    /\ result = "Ok"
    /\ drag_start = << ev.pos[1] >>
    /\ drag_start_frame_rect = << geom[FirstFrameId] >>
    /\ geom[FirstFrameId] # InitRect
    /\ focused_window = 1
    /\ At("ConfigureWindow", FirstFrameId) # {}

\* C17: while a drag is in progress and button 1 is held, each motion over the
\* dragged window requests the frame at originalRect.origin + (pointer - anchor),
\* a position that depends on the anchor, the original rectangle and the current
\* pointer position only.
C17_MoveFollowsPointer ==
    MoveDragged =>
        /\ result = "Ok"
        /\ Configured(DragFrame) =
              { [x |-> DragRect.x + DragDx, y |-> DragRect.y + DragDy] }

\* C18: no motion event changes the drag state; a motion while no drag is in
\* progress issues no request, and so does a motion with neither button 1 nor
\* button 3 held.
C18_MotionKeepsDragState ==
    [][ev'.kind = "MotionNotify" =>
          /\ UNCHANGED <<drag_start, drag_start_frame_rect>>
          /\ (drag_start = << >> \/ drag_start_frame_rect = << >>) => reqs' = << >>
          /\ ev'.state \cap {"Button1", "Button3"} = {} => reqs' = << >>]_vars

\* A motion over the dragged client with no button held, away from the anchor.
C18_Witness ==
    /\ Dragged /\ ev.window = 1 /\ ev.state = {}
    /\ ev.pos[1] # DragAnchor
    /\ reqs = << >> /\ result = "Ok"

\* ---------------------------------------------------------------- focus
\* The client the registry holds for frame f, or f itself when it holds none.
ClientOfFrame(f) ==
    IF \E e \in framed_clients : e[2] = f
    THEN (CHOOSE e \in framed_clients : e[2] = f)[1]
    ELSE f

C20_RootUnmapChangesNothing ==
    [][/\ ev'.kind = "UnmapNotify(root)" =>
             /\ result' = "Ok"
             /\ UNCHANGED <<framed_clients, ignored_sequences, drag_start,
                            drag_start_frame_rect, focused_window, server_vars>>
       /\ ev'.kind = "UnmapNotify" =>
             /\ is_ignored(ignored_sequences', ev'.seq, ENTER_NOTIFY)
             /\ result' = "Ok" => {e \in framed_clients' : e[1] = ev'.window} = {}]_vars

\* C20: an unmap-notify whose container is the root unframes nothing and leaves
\* registry, drag state, focus and every window as they were, but its sequence
\* number is marked like that of every unmap-notify, so an enter-notify with that
\* sequence is swallowed; one whose container is not the root also unframes the
\* window: when the handler succeeds the registry holds no entry for it.
C20_RootUnmapOnlyMarks ==
    [][ev'.kind \in {"UnmapNotify(root)", "UnmapNotify"} =>
          /\ ignored_sequences' = add_with_type(ignored_sequences, ev'.seq, ENTER_NOTIFY)
          /\ is_ignored(ignored_sequences', ev'.seq, ENTER_NOTIFY)
          /\ UNCHANGED <<drag_start, drag_start_frame_rect, focused_window>>
          /\ IF ev'.kind = "UnmapNotify(root)"
             THEN result' = "Ok" /\ UNCHANGED <<framed_clients, server_vars>>
             ELSE result' = "Ok" => {e \in framed_clients' : e[1] = ev'.window} = {}]_vars

\* An unmap-notify from the root for framed, focused client 1 during a drag: the
\* client is still registered and the sequence number is marked for enter-notify.
C20_Witness ==
    /\ ev.kind = "UnmapNotify(root)" /\ ev.window = 1
    /\ EntriesOf(1) # {}
    /\ focused_window = 1 /\ drag_start # << >>
    /\ \E i \in DOMAIN ignored_sequences :
          ignored_sequences[i] = [seq |-> ev.seq, ty |-> ENTER_NOTIFY]

\* ------------------------------------------------------------- keyboard
\* The chords of a key event.
QuitChord(e) == {"Control", "Shift"} \subseteq e.state /\ e.detail = KEY_Q
KillChord(e) == "Control" \in e.state /\ e.detail = KEY_Q

\* C21: on key-press the quit chord comes first: with it held, shutdown is
\* signalled (one Exit command queued) and no request is issued, whatever is under
\* the pointer. Otherwise nothing is queued; with the kill chord held and a window
\* under the pointer, kill_window runs for exactly that window (its WM_PROTOCOLS
\* is read and every request names it); with neither chord, or the kill chord and
\* no window under the pointer, no request is issued.
C21_QuitBeforeKill ==
    [][ev'.kind = "KeyPress" =>
          LET e == ev'
              kill == ~QuitChord(e) /\ KillChord(e) /\ e.window # None
          IN /\ QuitChord(e) =>
                   /\ ev_queue' = ev_queue + 1
                   /\ reqs' = << >> /\ UNCHANGED server_vars
             /\ ~QuitChord(e) =>
                   /\ ev_queue' = ev_queue
                   /\ e.window \in window_at_pos(e.pos[1])
             /\ kill =>
                   /\ KillStep(reqs') /\ reqs'[1].w = e.window
                   /\ \A i \in DOMAIN reqs' :
                         reqs'[i].op \in {"SendEvent", "KillClient"} => reqs'[i].w = e.window
                   /\ result' = "Ok" =>
                         Cardinality(OpsIn(reqs', "SendEvent") \cup
                                     OpsIn(reqs', "KillClient")) = 1
             /\ (~QuitChord(e) /\ ~kill) =>
                   /\ reqs' = << >> /\ UNCHANGED server_vars]_vars

\* The quit chord was pressed with the pointer over the framed client: the Exit
\* command is queued and both clients are still there.
C21_Witness ==
    /\ ev.kind = "KeyPress" /\ QuitChord(ev)
    /\ WindowsAt(ev.pos[1]) # {}
    /\ ev_queue = 1 /\ reqs = << >>
    /\ alive = Clients /\ status = "running"

\* ----------------------------------------------------------- invariants
\* C22: in every reachable state the drag anchor is set if and only if the
\* original frame rectangle is set, also after a button-press whose geometry query
\* of the frame fails with a request error.
C22_DragHalvesTogether ==
    (drag_start = << >>) <=> (drag_start_frame_rect = << >>)

\* C23: every registered client sits at offset (0, 0) inside its frame and has the
\* frame's width and height, in every state that map-requests, configure-requests
\* and drags lead to.
C23_ClientFillsFrame ==
    \A e \in framed_clients :
        (e[1] \in alive /\ e[2] \in frames) =>
            geom[e[1]] = Rect(0, 0, geom[e[2]].w, geom[e[2]].h)

\* C24: no frame is orphaned: in every reachable state each frame the manager has
\* created and not destroyed is the registry's value for exactly one client, also
\* after a map-request for a registered client and after a framing or a teardown
\* that fails part-way.
C24_NoOrphanFrame ==
    \A f \in frames : Cardinality({e \in framed_clients : e[2] = f}) = 1

\* C25: while a drag is in progress a motion event moves or resizes only the
\* window the drag was started on. Where presses land on client 1 only, every
\* ConfigureWindow of a motion during a drag names client 1 or its frame, whatever
\* window the motion event names.
C25_OnlyDraggedWindowMoves ==
    (ev.kind = "MotionNotify" /\ drag_start # << >> /\ drag_start_frame_rect # << >>) =>
        \A i \in DOMAIN reqs :
            reqs[i].op = "ConfigureWindow" =>
                reqs[i].w \in {1, get_by_left(framed_clients, 1)}

\* C26: the focused window never dangles: in every reachable state the focused
\* window, when there is one, is a registered client or a registered frame; after
\* the focused client is unframed it names neither that client nor its frame.
C26_FocusIsManaged ==
    focused_window # None =>
        \E e \in framed_clients : focused_window \in {e[1], e[2]}

====
